---- MODULE Spec2Model ----
(***************************************************************************)
(* Model of the Optional<T> container of vorbote/ext-java: the full        *)
(* implementation (util/Optional with Objects.requireNonNull) and the      *)
(* minimal one (src/util/Optional.ts).  Instances live in a heap, a        *)
(* sequence of value slots; a reference is an index into the heap, so      *)
(* instance identity is index equality.                                    *)
(***************************************************************************)
EXTENDS Integers, Sequences, FiniteSets, TLC

\* Largest number of Optional instances (the shared EMPTY one included).
MaxObjs == 3

(***************************************************************************)
(* JavaScript values.  Every value is a record of the same shape:          *)
(* t is the type tag, n the number / boolean / reference, s the string     *)
(* or the function's name.                                                 *)
(***************************************************************************)
Null == [t |-> "null", n |-> 0, s |-> ""]
Undefined == [t |-> "undefined", n |-> 0, s |-> ""]
NaN == [t |-> "NaN", n |-> 0, s |-> ""]
Num(k) == [t |-> "number", n |-> k, s |-> ""]
Str(x) == [t |-> "string", n |-> 0, s |-> x]
Bool(b) == [t |-> "boolean", n |-> IF b THEN 1 ELSE 0, s |-> ""]
Ref(r) == [t |-> "Optional", n |-> r, s |-> ""]
Fn(name, k) == [t |-> "function", n |-> k, s |-> name]

\* `value == null`: loose equality with null holds for null and undefined only.
LooseEqNull(v) == v.t \in {"null", "undefined"}

\* `if (value)`: ToBoolean; null, undefined, NaN, 0, "" and false are falsy.
Truthy(v) ==
  ~ \/ v.t \in {"null", "undefined", "NaN"}
    \/ v.t = "number" /\ v.n = 0
    \/ v.t = "string" /\ v.s = ""
    \/ v.t = "boolean" /\ v.n = 0

\* x * 2 under ToNumber.
Double(v) ==
  CASE v.t = "number" -> Num(2 * v.n)
    [] v.t = "boolean" -> Num(2 * v.n)
    [] v.t = "null" -> Num(0)
    [] v.t = "string" /\ v.s = "" -> Num(0)
    [] OTHER -> NaN

\* The callbacks handed to the container, by name.
Apply(f, x) ==
  CASE f.s = "identity" -> x
    [] f.s = "double" -> Double(x)
    [] f.s = "constNull" -> Null
    [] f.s = "constUndefined" -> Undefined
    [] f.s = "constZero" -> Num(0)
    [] f.s = "constFive" -> Num(5)
    [] f.s = "constTrue" -> Bool(TRUE)
    [] f.s = "constFalse" -> Bool(FALSE)
    [] f.s = "longerThan1" -> Bool(x.t = "string" /\ Len(x.s) > 1)
    [] f.s = "constRef" -> Ref(f.n)

IsCallable(f) == f.t = "function"

(***************************************************************************)
(* Outcome of a call: it returns val or throws err(msg); heap is the heap  *)
(* after the call and calls the callback invocations it made, in order.    *)
(***************************************************************************)
Return(v, h, c) ==
  [kind |-> "return", val |-> v, err |-> "", msg |-> "", heap |-> h, calls |-> c]
Throw(e, m, h, c) ==
  [kind |-> "throw", val |-> Undefined, err |-> e, msg |-> m, heap |-> h, calls |-> c]

\* Invoking f(x): a TypeError when f is not a function.
Call(f, x, h) ==
  IF IsCallable(f) THEN Return(Apply(f, x), h, << <<f, x>> >>)
  ELSE Throw("TypeError", "", h, <<>>)

\* The shared empty instance is the first one constructed.
EMPTY == 1

(***************************************************************************)
(* Objects                                                                 *)
(***************************************************************************)
requireNonNull(h, value) ==
  IF LooseEqNull(value) THEN Throw("NullPointerException", "", h, <<>>)
  ELSE Return(value, h, <<>>)

(***************************************************************************)
(* Optional, full implementation                                           *)
(***************************************************************************)
constructor(h, value) ==
  Return(Ref(Len(h) + 1), Append(h, IF Truthy(value) THEN value ELSE Null), <<>>)

empty(h) == Return(Ref(EMPTY), h, <<>>)

of(h, value) ==
  LET r == requireNonNull(h, value)
  IN IF r.kind = "throw" THEN r ELSE constructor(h, r.val)

\* ofNullable comparing with `=== null`: undefined is handed on to of.
ofNullable_strict(h, value) ==
  IF value.t = "null" THEN empty(h) ELSE of(h, value)

ofNullable(h, value) ==
  IF LooseEqNull(value) THEN empty(h) ELSE of(h, value)

get(h, this) ==
  IF LooseEqNull(h[this])
  THEN Throw("NoSuchElementException", "No value present.", h, <<>>)
  ELSE Return(h[this], h, <<>>)

isPresent(h, this) == ~ LooseEqNull(h[this])

isEmpty(h, this) == LooseEqNull(h[this])

filter(h, this, predicate) ==
  LET r == requireNonNull(h, predicate)
  IN IF r.kind = "throw" THEN r
     ELSE IF ~ isPresent(h, this) THEN Return(Ref(this), h, <<>>)
     ELSE LET p == Call(predicate, h[this], h)
          IN IF p.kind = "throw" THEN p
             ELSE IF Truthy(p.val) THEN Return(Ref(this), h, p.calls)
             ELSE [empty(h) EXCEPT !.calls = p.calls]

map(h, this, callback) ==
  IF LooseEqNull(h[this]) THEN empty(h)
  ELSE LET u == Call(callback, h[this], h)
       IN IF u.kind = "throw" THEN u
          ELSE [ofNullable(h, u.val) EXCEPT !.calls = u.calls]

\* flatMap wrapping the mapper's result as map does.
flatMap_rewrap(h, this, mapper) ==
  LET r == requireNonNull(h, mapper)
  IN IF r.kind = "throw" THEN r
     ELSE IF ~ isPresent(h, this) THEN empty(h)
     ELSE LET u == Call(mapper, h[this], h)
          IN IF u.kind = "throw" THEN u
             ELSE [ofNullable(h, u.val) EXCEPT !.calls = u.calls]

flatMap(h, this, mapper) ==
  LET r == requireNonNull(h, mapper)
  IN IF r.kind = "throw" THEN r
     ELSE IF ~ isPresent(h, this) THEN empty(h)
     ELSE LET u == Call(mapper, h[this], h)
          IN IF u.kind = "throw" THEN u
             ELSE [requireNonNull(h, u.val) EXCEPT !.calls = u.calls]

or(h, this, supplier) ==
  LET r == requireNonNull(h, supplier)
  IN IF r.kind = "throw" THEN r
     ELSE IF ~ isPresent(h, this) THEN Return(Ref(this), h, <<>>)
     ELSE LET u == Call(supplier, Undefined, h)
          IN IF u.kind = "throw" THEN u
             ELSE [requireNonNull(h, u.val) EXCEPT !.calls = u.calls]

orElse(h, this, other) ==
  IF ~ LooseEqNull(h[this]) THEN Return(h[this], h, <<>>) ELSE Return(other, h, <<>>)

\* orElseGet returning the supplier's result unvalidated.
orElseGet_unchecked(h, this, supplier) ==
  IF ~ LooseEqNull(h[this]) THEN Return(h[this], h, <<>>)
  ELSE Call(supplier, Undefined, h)

orElseGet(h, this, supplier) ==
  IF ~ LooseEqNull(h[this]) THEN Return(h[this], h, <<>>)
  ELSE LET u == Call(supplier, Undefined, h)
       IN IF u.kind = "throw" THEN u
          ELSE [requireNonNull(h, u.val) EXCEPT !.calls = u.calls]

\* orElseThrow with the message of get.
orElseThrow_getMessage(h, this) ==
  IF LooseEqNull(h[this])
  THEN Throw("NoSuchElementException", "No value present.", h, <<>>)
  ELSE Return(h[this], h, <<>>)

orElseThrow(h, this) ==
  IF LooseEqNull(h[this])
  THEN Throw("NoSuchElementException", "No value present", h, <<>>)
  ELSE Return(h[this], h, <<>>)

(***************************************************************************)
(* Optional, minimal implementation                                        *)
(***************************************************************************)
minimal_constructor(h, value) ==
  Return(Ref(Len(h) + 1), Append(h, IF Truthy(value) THEN value ELSE Null), <<>>)

minimal_empty(h) == Return(Ref(EMPTY), h, <<>>)

minimal_of(h, value) == minimal_constructor(h, value)

minimal_ofNullable(h, value) ==
  IF LooseEqNull(value) THEN minimal_empty(h) ELSE minimal_of(h, value)

minimal_get(h, this) ==
  IF LooseEqNull(h[this])
  THEN Throw("NoSuchElementException", "No value present.", h, <<>>)
  ELSE Return(h[this], h, <<>>)

minimal_isPresent(h, this) == ~ LooseEqNull(h[this])

minimal_map(h, this, callback) ==
  IF LooseEqNull(h[this]) THEN minimal_empty(h)
  ELSE LET u == Call(callback, h[this], h)
       IN IF u.kind = "throw" THEN u
          ELSE [minimal_ofNullable(h, u.val) EXCEPT !.calls = u.calls]

minimal_orElse(h, this, other) ==
  IF ~ LooseEqNull(h[this]) THEN Return(h[this], h, <<>>) ELSE Return(other, h, <<>>)

(***************************************************************************)
(* State                                                                   *)
(***************************************************************************)
VARIABLES
  impl,   \* which implementation the program imports: "full" or "minimal"
  heap,   \* heap[r]: the value slot of instance r
  pre,    \* the heap before the last call
  last,   \* the last call: operation, receiver (0 for a static one), argument
  res     \* its outcome

vars == <<impl, heap, pre, last, res>>

\* Arguments the calls are tried with.
Values ==
  {Null, Undefined, Num(0), Num(5), Str(""), Str("a"), Str("ab"), Bool(FALSE)}
Funcs == {Null, Fn("identity", 0), Fn("double", 0), Fn("constNull", 0),
          Fn("constUndefined", 0), Fn("constZero", 0)}
Predicates == {Null, Fn("constTrue", 0), Fn("constFalse", 0), Fn("longerThan1", 0)}
Suppliers == {Null, Fn("constNull", 0), Fn("constUndefined", 0),
              Fn("constZero", 0), Fn("constFive", 0)}
OptionalFuncs(h) ==
  {Null, Fn("constNull", 0), Fn("constUndefined", 0)}
    \cup {Fn("constRef", r) : r \in 1..Len(h)}

Refs == 1..Len(heap)

Outcome(o) == [kind |-> o.kind, val |-> o.val, err |-> o.err, msg |-> o.msg,
               calls |-> o.calls]

\* A call with outcome o took place.
Did(op, this, arg, o) ==
  /\ Len(o.heap) <= MaxObjs
  /\ heap' = o.heap
  /\ pre' = heap
  /\ last' = [op |-> op, this |-> this, arg |-> arg]
  /\ res' = Outcome(o)
  /\ UNCHANGED impl

Init ==
  /\ impl \in {"full", "minimal"}
  /\ heap = IF impl = "full" THEN constructor(<<>>, Null).heap
            ELSE minimal_constructor(<<>>, Undefined).heap
  /\ pre = heap
  /\ last = [op |-> "init", this |-> 0, arg |-> Undefined]
  /\ res = Outcome(Return(Undefined, heap, <<>>))

Empty ==
  /\ impl \in {"full", "minimal"}
  /\ Did("empty", 0, Undefined,
         IF impl = "full" THEN empty(heap) ELSE minimal_empty(heap))

Of ==
  /\ impl \in {"full", "minimal"}
  /\ \E v \in Values :
       Did("of", 0, v, IF impl = "full" THEN of(heap, v) ELSE minimal_of(heap, v))

OfNullable ==
  /\ impl \in {"full", "minimal"}
  /\ \E v \in Values :
       Did("ofNullable", 0, v,
           IF impl = "full" THEN ofNullable(heap, v) ELSE minimal_ofNullable(heap, v))

Get ==
  \E r \in Refs :
    Did("get", r, Undefined, IF impl = "full" THEN get(heap, r) ELSE minimal_get(heap, r))

IsPresent ==
  \E r \in Refs :
    Did("isPresent", r, Undefined,
        Return(Bool(IF impl = "full" THEN isPresent(heap, r)
                    ELSE minimal_isPresent(heap, r)), heap, <<>>))

IsEmpty ==
  /\ impl = "full"
  /\ \E r \in Refs :
       Did("isEmpty", r, Undefined, Return(Bool(isEmpty(heap, r)), heap, <<>>))

Map ==
  \E r \in Refs, f \in Funcs :
    Did("map", r, f, IF impl = "full" THEN map(heap, r, f) ELSE minimal_map(heap, r, f))

Filter ==
  /\ impl = "full"
  /\ \E r \in Refs, p \in Predicates : Did("filter", r, p, filter(heap, r, p))

FlatMap ==
  /\ impl = "full"
  /\ \E r \in Refs, f \in OptionalFuncs(heap) : Did("flatMap", r, f, flatMap(heap, r, f))

Or ==
  /\ impl = "full"
  /\ \E r \in Refs, f \in OptionalFuncs(heap) : Did("or", r, f, or(heap, r, f))

OrElse ==
  \E r \in Refs, v \in Values :
    Did("orElse", r, v,
        IF impl = "full" THEN orElse(heap, r, v) ELSE minimal_orElse(heap, r, v))

OrElseGet ==
  /\ impl = "full"
  /\ \E r \in Refs, f \in Suppliers : Did("orElseGet", r, f, orElseGet(heap, r, f))

OrElseThrow ==
  /\ impl = "full"
  /\ \E r \in Refs : Did("orElseThrow", r, Undefined, orElseThrow(heap, r))

Next ==
  \/ Empty
  \/ Of
  \/ OfNullable
  \/ Get
  \/ IsPresent
  \/ IsEmpty
  \/ Map
  \/ Filter
  \/ FlatMap
  \/ Or
  \/ OrElse
  \/ OrElseGet
  \/ OrElseThrow

Spec == Init /\ [][Next]_vars

(***************************************************************************)
(* Properties                                                              *)
(***************************************************************************)
\* The queries of the imported implementation.
PresentIn(h, r) == IF impl = "full" THEN isPresent(h, r) ELSE minimal_isPresent(h, r)
GetIn(h, r) == IF impl = "full" THEN get(h, r) ELSE minimal_get(h, r)
OfIn(h, v) == IF impl = "full" THEN of(h, v) ELSE minimal_of(h, v)
OrElseIn(h, r, v) == IF impl = "full" THEN orElse(h, r, v) ELSE minimal_orElse(h, r, v)

Returned(v) == res.kind = "return" /\ res.val = v
Threw(e) == res.kind = "throw" /\ res.err = e

\* What the queries isPresent, isEmpty, get and orElse tell about instance r.
Observe(h, r) ==
  <<PresentIn(h, r),
    IF impl = "full" THEN isEmpty(h, r) ELSE ~ minimal_isPresent(h, r),
    Outcome(GetIn(h, r)),
    [v \in Values |-> Outcome(OrElseIn(h, r, v))]>>

\* C1: for every non-null v (0, "" and false included) of(v) returns a
\* container whose isPresent() is true and whose get() returns v.
C1_OfHoldsValue ==
  (last.op = "of" /\ ~ LooseEqNull(last.arg)) =>
    /\ res.kind = "return"
    /\ res.val.t = "Optional"
    /\ PresentIn(heap, res.val.n)
    /\ Outcome(GetIn(heap, res.val.n)) = Outcome(Return(last.arg, heap, <<>>))

\* C2: or(supplier) fails with NullPointerException on a null supplier; on a
\* present container it returns that container without invoking supplier; on
\* an empty one it invokes supplier and returns exactly its result, failing
\* with NullPointerException when that result is null.
C2_Or ==
  last.op = "or" =>
    IF LooseEqNull(last.arg) THEN Threw("NullPointerException")
    ELSE IF isPresent(pre, last.this)
      THEN Returned(Ref(last.this)) /\ res.calls = <<>>
      ELSE /\ res.calls = << <<last.arg, Undefined>> >>
           /\ IF LooseEqNull(Apply(last.arg, Undefined))
                THEN Threw("NullPointerException")
                ELSE Returned(Apply(last.arg, Undefined))

\* C3: of(null) and of(undefined) fail with NullPointerException and create
\* no container, in the full and in the minimal implementation.
C3_OfNullThrows ==
  (last.op = "of" /\ LooseEqNull(last.arg)) =>
    Threw("NullPointerException") /\ heap = pre

\* C4: map(f) on a present container holding v returns the empty container
\* when f(v) is null and otherwise a present container whose get() returns
\* f(v); on an empty container it returns empty() without invoking f.
C4_Map ==
  (last.op = "map" /\ IsCallable(last.arg)) =>
    IF PresentIn(pre, last.this)
      THEN LET u == Apply(last.arg, pre[last.this])
           IN /\ res.calls = << <<last.arg, pre[last.this]>> >>
              /\ IF LooseEqNull(u) THEN Returned(Ref(EMPTY))
                 ELSE /\ res.kind = "return"
                      /\ res.val.t = "Optional"
                      /\ PresentIn(heap, res.val.n)
                      /\ Outcome(GetIn(heap, res.val.n)) = Outcome(Return(u, heap, <<>>))
      ELSE Returned(Ref(EMPTY)) /\ res.calls = <<>>

\* C5: get() and orElseThrow() return the held value of a present container;
\* on an empty one get() throws NoSuchElementException("No value present.")
\* and orElseThrow() throws NoSuchElementException("No value present").
C5_GetOrElseThrow ==
  /\ last.op = "get" =>
       IF PresentIn(pre, last.this)
         THEN Returned(pre[last.this]) /\ ~ LooseEqNull(res.val)
         ELSE Threw("NoSuchElementException") /\ res.msg = "No value present."
  /\ last.op = "orElseThrow" =>
       IF PresentIn(pre, last.this)
         THEN Returned(pre[last.this]) /\ ~ LooseEqNull(res.val)
         ELSE Threw("NoSuchElementException") /\ res.msg = "No value present"

C5_Witness ==
  /\ last.op = "orElseThrow"
  /\ ~ PresentIn(pre, last.this)
  /\ res.msg = "No value present"
  /\ \E r \in Refs : PresentIn(heap, r)

\* C6: filter(null) fails with NullPointerException on a present and on an
\* empty container; filter(p) on a present container holding v returns that
\* container when p(v) is true and empty() when it is false; on an empty
\* container it returns empty() without invoking p.
C6_Filter ==
  last.op = "filter" =>
    IF LooseEqNull(last.arg) THEN Threw("NullPointerException")
    ELSE IF isPresent(pre, last.this)
      THEN /\ res.calls = << <<last.arg, pre[last.this]>> >>
           /\ IF Truthy(Apply(last.arg, pre[last.this]))
                THEN Returned(Ref(last.this))
                ELSE Returned(Ref(EMPTY))
      ELSE Returned(Ref(EMPTY)) /\ res.calls = <<>>

\* C7: flatMap(null) fails with NullPointerException; flatMap(f) on a present
\* container holding v returns exactly the Optional f(v), creating no
\* instance, and fails with NullPointerException when f(v) is null; on an
\* empty container it returns empty() without invoking f.
C7_FlatMap ==
  last.op = "flatMap" =>
    /\ heap = pre
    /\ IF LooseEqNull(last.arg) THEN Threw("NullPointerException")
       ELSE IF isPresent(pre, last.this)
         THEN /\ res.calls = << <<last.arg, pre[last.this]>> >>
              /\ IF LooseEqNull(Apply(last.arg, pre[last.this]))
                   THEN Threw("NullPointerException")
                   ELSE Returned(Apply(last.arg, pre[last.this]))
         ELSE Returned(Ref(EMPTY)) /\ res.calls = <<>>

C7_Witness ==
  /\ last.op = "flatMap"
  /\ isPresent(pre, last.this)
  /\ last.arg.s = "constRef"
  /\ res.kind = "return"
  /\ res.val.n # EMPTY
  /\ res.val.n # last.this

\* C8: ofNullable(null) returns what empty() returns, the same under
\* isPresent, isEmpty, get and orElse; for non-null v ofNullable(v) does not
\* fail and its result answers these queries as the result of of(v) does.
C8_OfNullable ==
  last.op = "ofNullable" =>
    /\ res.kind = "return"
    /\ res.val.t = "Optional"
    /\ IF LooseEqNull(last.arg)
         THEN /\ res = Outcome(empty(pre))
              /\ heap = pre
              /\ Observe(heap, res.val.n) = Observe(pre, EMPTY)
         ELSE LET o == OfIn(pre, last.arg)
              IN /\ o.kind = "return"
                 /\ Observe(heap, res.val.n) = Observe(o.heap, o.val.n)

C8_Witness ==
  /\ last.op = "ofNullable"
  /\ last.arg = Str("a")
  /\ res.kind = "return"
  /\ heap[res.val.n] = Str("a")
  /\ \E r \in Refs : r # res.val.n /\ r # EMPTY

\* C9: orElseGet(supplier) returns the held value of a present container
\* without invoking supplier; on an empty one it invokes supplier once and
\* returns its result, failing with NullPointerException when it is null.
C9_OrElseGet ==
  last.op = "orElseGet" =>
    /\ heap = pre
    /\ IF isPresent(pre, last.this)
         THEN Returned(pre[last.this]) /\ res.calls = <<>>
         ELSE IsCallable(last.arg) =>
                /\ res.calls = << <<last.arg, Undefined>> >>
                /\ IF LooseEqNull(Apply(last.arg, Undefined))
                     THEN Threw("NullPointerException")
                     ELSE Returned(Apply(last.arg, Undefined))

C9_Witness ==
  /\ last.op = "orElseGet"
  /\ ~ isPresent(pre, last.this)
  /\ last.arg.s = "constUndefined"
  /\ Threw("NullPointerException")

\* C10: every instance whose isPresent() is false is the shared EMPTY
\* instance, and the slot of EMPTY never changes.
C10_SingleEmpty ==
  /\ \A r \in Refs : ~ PresentIn(heap, r) => r = EMPTY
  /\ heap[EMPTY] = Null

====
